---- MODULE Spec2Model ----
(***************************************************************************)
(* Model of api/main.py: the download-stream generator (_stream_download), *)
(* the filename resolver (_resolve_output_filename), the retrieval        *)
(* endpoint (fetch_download), the filesystem they act on and the external *)
(* yt-dlp processes they spawn.                                            *)
(*                                                                         *)
(* Text is modelled as a sequence of tokens (a token stands for one or     *)
(* more characters: "/" the path separator, " " whitespace, ".webm" an     *)
(* extension, ...).  A filesystem path is a sequence of components, each   *)
(* component a text.                                                       *)
(***************************************************************************)
EXTENDS Integers, Sequences, FiniteSets, TLC

VARIABLES fs, reqs, resp

vars == <<fs, reqs, resp>>

\* ------------------------------------------------------------------ bounds
\* Number of stream requests in flight over a run.
MaxReq == 2
\* Number of output lines one extraction process prints.
MaxLines == 1

\* ------------------------------------------------------------ text helpers
SP == " "
NL == "\n"
SEP == "/"
IsSpace(t) == t \in {SP, NL}

RECURSIVE LStrip(_)
LStrip(s) == IF s # <<>> /\ IsSpace(Head(s)) THEN LStrip(Tail(s)) ELSE s

RECURSIVE RStrip(_)
RStrip(s) ==
    IF s # <<>> /\ IsSpace(s[Len(s)]) THEN RStrip(SubSeq(s, 1, Len(s) - 1)) ELSE s

\* str.strip()
Strip(s) == LStrip(RStrip(s))

\* str.endswith(tok), str.startswith(tok)
EndsWith(s, tok) == s # <<>> /\ s[Len(s)] = tok
StartsWith(s, tok) == s # <<>> /\ s[1] = tok

\* ------------------------------------------------------------ pure paths
DOT == <<".">>
DOTDOT == <<"..">>
TILDE == <<"~">>

\* The components of a text split at "/", as pathlib keeps them: empty
\* components and "." components are dropped, ".." is kept.
RECURSIVE SplitParts(_, _, _)
SplitParts(s, cur, acc) ==
    LET keep(c) == IF c = <<>> \/ c = DOT THEN acc ELSE Append(acc, c)
    IN  IF s = <<>> THEN keep(cur)
        ELSE IF Head(s) = SEP THEN SplitParts(Tail(s), <<>>, keep(cur))
        ELSE SplitParts(Tail(s), Append(cur, Head(s)), acc)

\* Path(text)
PurePath(s) == [abs |-> StartsWith(s, SEP), parts |-> SplitParts(s, <<>>, <<>>)]

\* Path(text).name
PathName(s) ==
    LET p == PurePath(s).parts IN IF p = <<>> THEN <<>> ELSE p[Len(p)]

\* ------------------------------------------------------------ filesystem
Root == <<>>
HomeDir == << <<"h">> >>
OutDir == << <<"o">> >>
\* the server's working directory (relative paths resolve against it)
Cwd == OutDir

Dir == [kind |-> "dir", target |-> <<>>, content |-> "none", writer |-> 0, mtime |-> 0]
Link(t) == [kind |-> "link", target |-> t, content |-> "none", writer |-> 0, mtime |-> 0]
File(c, w, t) == [kind |-> "file", target |-> <<>>, content |-> c, writer |-> w, mtime |-> t]

Parent(p) == IF p = <<>> THEN <<>> ELSE SubSeq(p, 1, Len(p) - 1)

\* Path.expanduser()
ExpandUser(pp) ==
    IF ~pp.abs /\ pp.parts # <<>> /\ Head(pp.parts) = TILDE
    THEN [abs |-> TRUE, parts |-> HomeDir \o Tail(pp.parts)]
    ELSE pp

\* Walks `parts` from the canonical path `cur` the way the kernel (and
\* Path.resolve) does: ".." goes to the parent, a symlink is followed.
RECURSIVE ResolveFrom(_, _, _)
ResolveFrom(F, cur, parts) ==
    IF parts = <<>> THEN cur
    ELSE LET c == Head(parts)
             nxt == Append(cur, c)
         IN  IF c = DOTDOT THEN ResolveFrom(F, Parent(cur), Tail(parts))
             ELSE IF nxt \in DOMAIN F /\ F[nxt].kind = "link"
                  THEN ResolveFrom(F, F[nxt].target, Tail(parts))
                  ELSE ResolveFrom(F, nxt, Tail(parts))

\* Path(text).expanduser().resolve()
Resolve(F, s) ==
    LET pp == ExpandUser(PurePath(s))
    IN  ResolveFrom(F, IF pp.abs THEN Root ELSE Cwd, pp.parts)

Exists(F, p) == p \in DOMAIN F
IsDir(F, p) == p \in DOMAIN F /\ F[p].kind = "dir"

\* Path.is_relative_to(home)
IsRelativeTo(p, base) == Len(p) >= Len(base) /\ SubSeq(p, 1, Len(base)) = base

Prefixes(p) == {SubSeq(p, 1, n) : n \in 0..Len(p)}

\* Path.mkdir(parents=True, exist_ok=True): fails when a component of the
\* path is not a directory.
MkdirOk(F, p) == \A q \in Prefixes(p) : q \in DOMAIN F => F[q].kind = "dir"
Mkdir(F, p) == [q \in DOMAIN F \cup Prefixes(p) |-> IF q \in DOMAIN F THEN F[q] ELSE Dir]

\* Mutant of Utime: the touch is forgotten.
UtimeForgotten(F, p) == F

\* os.utime(path, None): the modification time moves to the present, a later
\* instant than the one the node carried (mtime is a per-node logical time).
Utime(F, p) == [F EXCEPT ![p].mtime = @ + 1]

\* destination_dir / filename (lexical join; an empty name adds nothing)
Join(dir, name) == IF name = <<>> THEN dir ELSE Append(dir, name)

\* The node a lexical absolute path names once the kernel has walked it.
RealPath(F, p) == ResolveFrom(F, Root, p)

\* Path.exists()
PathExists(F, p) == Exists(F, RealPath(F, p))

\* ------------------------------------------------------------------ inputs
Urls == {"u1"}

NoDest == [given |-> FALSE, text |-> <<>>]
D(text) == [given |-> TRUE, text |-> text]

\* dest query values of the stream endpoint: absent, empty, blank, a new
\* directory under home, ".." traversal out of home, a new directory outside
\* home, a symlink in home that points outside, an absolute path outside, a
\* regular file, a path below a regular file.
Dests ==
    { NoDest, D(<<>>), D(<<SP>>),
      D(<<"~", SEP, "m">>),
      D(<<"~", SEP, "..">>),
      D(<<"~", SEP, "..", SEP, "x">>),
      D(<<"~", SEP, "l">>),
      D(<<SEP, "o">>),
      D(<<"~", SEP, "f">>),
      D(<<"~", SEP, "f", SEP, "s">>) }

\* One run of the dry-run process: exit status, stdout lines, stderr.
Run(rc, out, err) == [rc |-> rc, stdout |-> out, stderr |-> err]
ResolverRuns ==
    { Run(0, << <<"[info]">>, <<SP, "d", SEP, "a", ".webm", SP>>, <<SP>> >>, <<"E">>),
      Run(0, << <<"..">> >>, <<>>),
      Run(0, << <<SP>> >>, <<>>),
      Run(1, << <<"a", ".webm">> >>, <<SP, "E", NL>>),
      Run(1, << <<"x">>, <<SP>> >>, <<>>),
      Run(2, <<>>, <<>>) }

\* Lines an extraction process prints (stdout and stderr merged).
ExtractLines == { <<"dl", NL>>, <<SP, NL>>, <<"WARNING:", "w", NL>> }

\* Exit statuses of an extraction process.
ExitCodes == {0, 1, 2}

\* Outcome of asyncio.create_subprocess_exec: the process starts, or the
\* call raises (yt-dlp missing, fork failure).
SpawnOutcomes == {"ok", "raise"}

\* dest query values of the retrieval endpoint: the same, and home itself.
FetchDests == Dests \cup {D(<<"~">>)}

\* Path parameter of /download/{filename}.
FetchNames == { <<"a", ".mp3">>, <<"..">>, <<".">>, <<"m">>, <<"d", SEP, "a", ".mp3">> }

\* ------------------------------------------------------------------ frames
Frame(event, type, text, arg, status) ==
    [event |-> event, type |-> type, text |-> text, arg |-> arg, status |-> status]

LogFrame(text, arg) == Frame("message", "log", text, arg, 0)

\* Mutant of ErrorFrame: every failing exit is reported as status 1.
ErrorFrameStatusOne(text, arg, status) ==
    Frame("error", "error", text, arg, IF status = 0 THEN 0 ELSE 1)

ErrorFrame(text, arg, status) == Frame("error", "error", text, arg, status)
CompleteFrame(filename) == Frame("complete", "complete", "", filename, 0)

IsTerminal(f) == f.event \in {"error", "complete"}

\* ------------------------------------------------ _resolve_output_filename
RECURSIVE JoinLines(_)
JoinLines(lines) ==
    IF lines = <<>> THEN <<>> ELSE Head(lines) \o <<NL>> \o JoinLines(Tail(lines))

\* One pass of the loop body of lines 77-79: trim, then ".webm" -> ".mp3".
Normalise(line) ==
    LET stripped == Strip(line)
    IN  IF EndsWith(stripped, ".webm")
        THEN Append(SubSeq(stripped, 1, Len(stripped) - 1), ".mp3")
        ELSE stripped

\* Mutant of LastUsable: the lines are walked from the first one.
RECURSIVE FirstUsable(_)
FirstUsable(lines) ==
    IF lines = <<>> THEN [found |-> FALSE, text |-> <<>>]
    ELSE LET t == Normalise(Head(lines))
         IN  IF t # <<>> THEN [found |-> TRUE, text |-> t]
             ELSE FirstUsable(Tail(lines))

\* for line in reversed(lines): the first normalised line that is not empty
RECURSIVE LastUsable(_)
LastUsable(lines) ==
    IF lines = <<>> THEN [found |-> FALSE, text |-> <<>>]
    ELSE LET t == Normalise(lines[Len(lines)])
         IN  IF t # <<>> THEN [found |-> TRUE, text |-> t]
             ELSE LastUsable(SubSeq(lines, 1, Len(lines) - 1))

\* Mutant of ResolveOutputFilename: the detail of a failed dry run is taken
\* from stdout before stderr.
ResolveOutputFilenameStdoutFirst(run) ==
    IF run.rc # 0
    THEN [ok |-> FALSE, name |-> <<>>,
          text |-> IF Strip(run.stderr) # <<>> \/ Strip(JoinLines(run.stdout)) # <<>>
                   THEN "" ELSE "Failed to resolve filename",
          detail |-> IF Strip(JoinLines(run.stdout)) # <<>> THEN Strip(JoinLines(run.stdout))
                     ELSE Strip(run.stderr)]
    ELSE LET u == LastUsable(run.stdout)
         IN  IF u.found
             THEN [ok |-> TRUE, name |-> PathName(u.text), text |-> "", detail |-> <<>>]
             ELSE [ok |-> FALSE, name |-> <<>>,
                   text |-> "Filename not provided by yt-dlp", detail |-> <<>>]

\* The value returned, or the RuntimeError raised, once communicate() is back.
ResolveOutputFilename(run) ==
    IF run.rc # 0
    THEN [ok |-> FALSE, name |-> <<>>,
          text |-> IF Strip(run.stderr) # <<>> \/ Strip(JoinLines(run.stdout)) # <<>>
                   THEN "" ELSE "Failed to resolve filename",
          detail |-> IF Strip(run.stderr) # <<>> THEN Strip(run.stderr)
                     ELSE Strip(JoinLines(run.stdout))]
    ELSE LET u == LastUsable(run.stdout)
         IN  IF u.found
             THEN [ok |-> TRUE, name |-> PathName(u.text), text |-> "", detail |-> <<>>]
             ELSE [ok |-> FALSE, name |-> <<>>,
                   text |-> "Filename not provided by yt-dlp", detail |-> <<>>]

\* ------------------------------------------- destination check, lines 89-100
\* Mutant of StreamDest: the home test is made on the expanded path before
\* ".." and symlinks are resolved.
StreamDestUnresolved(F, dest) ==
    IF ~dest.given \/ dest.text = <<>> \/ Strip(dest.text) = <<>>
    THEN [ok |-> FALSE, fs |-> F, dir |-> <<>>, err |-> "Destination directory is required"]
    ELSE LET candidate == Resolve(F, dest.text)
             lexical == ExpandUser(PurePath(dest.text)).parts
         IN  IF ~Exists(F, candidate) /\ ~MkdirOk(F, candidate)
             THEN [ok |-> FALSE, fs |-> F, dir |-> <<>>, err |-> "NotADirectoryError"]
             ELSE LET F1 == IF Exists(F, candidate) THEN F ELSE Mkdir(F, candidate)
                  IN  IF ~IsDir(F1, candidate) \/ ~IsRelativeTo(lexical, HomeDir)
                      THEN [ok |-> FALSE, fs |-> F1, dir |-> <<>>,
                            err |-> "Destination must be a directory under the home folder"]
                      ELSE [ok |-> TRUE, fs |-> F1, dir |-> candidate, err |-> ""]

\* The outcome of the destination block of _stream_download on filesystem F:
\* the filesystem it leaves, and the directory or the ValueError message.
StreamDest(F, dest) ==
    IF ~dest.given \/ dest.text = <<>> \/ Strip(dest.text) = <<>>
    THEN [ok |-> FALSE, fs |-> F, dir |-> <<>>, err |-> "Destination directory is required"]
    ELSE LET candidate == Resolve(F, dest.text)
         IN  IF ~Exists(F, candidate) /\ ~MkdirOk(F, candidate)
             THEN [ok |-> FALSE, fs |-> F, dir |-> <<>>, err |-> "NotADirectoryError"]
             ELSE LET F1 == IF Exists(F, candidate) THEN F ELSE Mkdir(F, candidate)
                  IN  IF ~IsDir(F1, candidate) \/ ~IsRelativeTo(candidate, HomeDir)
                      THEN [ok |-> FALSE, fs |-> F1, dir |-> <<>>,
                            err |-> "Destination must be a directory under the home folder"]
                      ELSE [ok |-> TRUE, fs |-> F1, dir |-> candidate, err |-> ""]

\* ------------------------------------------------------------ fetch_download
Response(status, detail, filename, dest, path) ==
    [status |-> status, detail |-> detail, filename |-> filename, dest |-> dest,
     path |-> path]

\* Mutant of FetchDownload: the "~" of dest is not expanded.
FetchDownloadNoExpand(F, filename, dest) ==
    IF PathName(filename) # filename
    THEN Response(400, "Invalid filename", filename, dest, <<>>)
    ELSE IF ~dest.given \/ dest.text = <<>> \/ Strip(dest.text) = <<>>
    THEN Response(400, "Destination directory is required", filename, dest, <<>>)
    ELSE LET pp == PurePath(dest.text)
             candidate == ResolveFrom(F, IF pp.abs THEN Root ELSE Cwd, pp.parts)
         IN  IF ~IsDir(F, candidate) \/ ~IsRelativeTo(candidate, HomeDir)
             THEN Response(400, "Invalid destination directory", filename, dest, <<>>)
             ELSE IF ~PathExists(F, Join(candidate, filename))
             THEN Response(404, "Download not found", filename, dest, <<>>)
             ELSE Response(200, "", filename, dest, Join(candidate, filename))

FetchDownload(F, filename, dest) ==
    IF PathName(filename) # filename
    THEN Response(400, "Invalid filename", filename, dest, <<>>)
    ELSE IF ~dest.given \/ dest.text = <<>> \/ Strip(dest.text) = <<>>
    THEN Response(400, "Destination directory is required", filename, dest, <<>>)
    ELSE LET candidate == Resolve(F, dest.text)
         IN  IF ~IsDir(F, candidate) \/ ~IsRelativeTo(candidate, HomeDir)
             THEN Response(400, "Invalid destination directory", filename, dest, <<>>)
             ELSE IF ~PathExists(F, Join(candidate, filename))
             THEN Response(404, "Download not found", filename, dest, <<>>)
             ELSE Response(200, "", filename, dest, Join(candidate, filename))

\* ------------------------------------------------------------- the program
Requests == 1..MaxReq

\* A dry-run or extraction process created by a request.
Spawn(mode, url, output) == [mode |-> mode, url |-> url, output |-> output]

Idle ==
    [pc |-> "idle", url |-> "", dest |-> NoDest, dir |-> <<>>, filename |-> <<>>,
     out |-> <<>>, frames |-> <<>>, spawns |-> <<>>, proc |-> "none", rc |-> 0,
     http |-> 0, run |-> Run(0, <<>>, <<>>), line |-> <<>>]

InitFs ==
    (Root :> Dir) @@ (HomeDir :> Dir) @@ (OutDir :> Dir)
    @@ (Append(HomeDir, <<"l">>) :> Link(OutDir))
    @@ (Append(HomeDir, <<"f">>) :> File("full", 0, 0))

Init ==
    /\ fs = InitFs
    /\ reqs = [r \in Requests |-> Idle]
    /\ resp = Response(0, "", <<>>, NoDest, <<>>)

\* Mutant of Fail: the exception leaves the generator uncaught.
FailUncaught(q, text, arg) == [q EXCEPT !.pc = "done"]

\* The except clause of line 143: one error frame, and the generator ends.
Fail(q, text, arg) ==
    [q EXCEPT !.pc = "done", !.frames = Append(q.frames, ErrorFrame(text, arg, 0))]

\* Mutant of Start: the dry-run process is created before the destination
\* is checked.
StartSpawnFirst(r) ==
    /\ reqs[r].pc = "idle"
    /\ r > 1 => reqs[r - 1].pc # "idle"
    /\ \E url \in Urls, dest \in Dests :
         LET v == StreamDest(fs, dest)
             q == [reqs[r] EXCEPT !.url = url, !.dest = dest, !.http = 200,
                       !.spawns = Append(@, Spawn("resolve", url, <<>>))]
         IN  /\ fs' = v.fs
             /\ reqs' = [reqs EXCEPT ![r] =
                   IF ~v.ok THEN [q EXCEPT !.pc = "done",
                                     !.frames = Append(@, ErrorFrame(v.err, <<>>, 0))]
                   ELSE [q EXCEPT !.dir = v.dir, !.pc = "resolving"]]
    /\ UNCHANGED resp

\* download_stream (the response is a 200 event stream whatever the
\* arguments), and _stream_download up to its first await: the destination
\* check and the creation of the dry-run process.
Start(r) ==
    /\ reqs[r].pc = "idle"
    /\ r > 1 => reqs[r - 1].pc # "idle"
    /\ \E url \in Urls, dest \in Dests, sp \in SpawnOutcomes :
         LET v == StreamDest(fs, dest)
             q == [reqs[r] EXCEPT !.url = url, !.dest = dest, !.http = 200]
         IN  /\ fs' = v.fs
             /\ reqs' = [reqs EXCEPT ![r] =
                   IF ~v.ok THEN Fail(q, v.err, <<>>)
                   ELSE IF sp = "raise" THEN Fail([q EXCEPT !.dir = v.dir], "OSError", <<>>)
                   ELSE [q EXCEPT !.dir = v.dir, !.pc = "resolving",
                             !.spawns = Append(@, Spawn("resolve", url, <<>>))]]
    /\ UNCHANGED resp

\* communicate() returns: lines 71-83, then lines 102-110 up to the log frame
\* of a cache hit or the creation of the extraction process.
ResolverDone(r) ==
    /\ reqs[r].pc = "resolving"
    /\ \E run \in ResolverRuns, sp \in SpawnOutcomes :
       \E res \in {ResolveOutputFilename(run)} :
         LET q == [reqs[r] EXCEPT !.run = run]
             destination == Join(q.dir, res.name)
             named == [q EXCEPT !.filename = res.name, !.out = destination]
         IN  IF ~res.ok
             THEN /\ reqs' = [reqs EXCEPT ![r] = Fail(q, res.text, res.detail)]
                  /\ UNCHANGED fs
             ELSE IF PathExists(fs, destination)
             THEN /\ fs' = Utime(fs, RealPath(fs, destination))
                  /\ reqs' = [reqs EXCEPT ![r] =
                        [named EXCEPT !.pc = "hit",
                            !.frames = Append(q.frames,
                                LogFrame("Using cached audio for", res.name))]]
             ELSE /\ reqs' = [reqs EXCEPT ![r] =
                        IF sp = "raise" THEN Fail(named, "OSError", <<>>)
                        ELSE [named EXCEPT !.pc = "reading", !.proc = "running",
                                  !.spawns = Append(@, Spawn("extract", q.url, destination))]]
                  /\ UNCHANGED fs
    /\ UNCHANGED resp

\* Lines 141-142 after the log frame of a cache hit.
HitComplete(r) ==
    /\ reqs[r].pc = "hit"
    /\ reqs' = [reqs EXCEPT ![r].pc = "done",
                    ![r].frames = Append(@, CompleteFrame(reqs[r].filename))]
    /\ UNCHANGED <<fs, resp>>

\* The log frames of the read loop emitted so far.
LoopLogs(q) == Len(SelectSeq(q.frames, LAMBDA f : f.event = "message"))

\* Mutant of ReadLineOf: the warning marker is looked for in the line as
\* read, before it is trimmed.
ReadLineOfRaw(r, lines, n) ==
    /\ reqs[r].pc = "reading"
    /\ reqs[r].proc = "running"
    /\ LoopLogs(reqs[r]) < n
    /\ \E line \in lines :
         LET text == Strip(line)
         IN  reqs' = [reqs EXCEPT
                 ![r].line = line,
                 ![r].frames = IF text = <<>> \/ StartsWith(line, "WARNING:")
                               THEN @ ELSE Append(@, LogFrame("", text))]
    /\ UNCHANGED <<fs, resp>>

\* readline() returns a line the process printed, one of `lines`; lines
\* 118-125.  The process prints no further line once n log frames are out.
ReadLineOf(r, lines, n) ==
    /\ reqs[r].pc = "reading"
    /\ reqs[r].proc = "running"
    /\ LoopLogs(reqs[r]) < n
    /\ \E line \in lines :
         LET text == Strip(line)
         IN  reqs' = [reqs EXCEPT
                 ![r].line = line,
                 ![r].frames = IF text = <<>> \/ StartsWith(text, "WARNING:")
                               THEN @ ELSE Append(@, LogFrame("", text))]
    /\ UNCHANGED <<fs, resp>>

ReadLine(r) == ReadLineOf(r, ExtractLines, MaxLines)

\* A longer output of one extraction: two lines that are shown (one of them
\* padded, one holding the warning marker after its first word), an empty
\* line, a blank one, a warning and a padded warning.
LogLines ==
    { <<"dl", NL>>, <<SP, "fin", SP, NL>>, <<"w", "WARNING:", NL>>,
      <<NL>>, <<SP, NL>>, <<"WARNING:", "w", NL>>, <<SP, "WARNING:", "w", NL>> }

\* Log frames of that output.
MaxLog == 3

ReadLog(r) == ReadLineOf(r, LogLines, MaxLog)

\* Mutant of WaitDone: the existence of the destination directory is checked
\* in place of the existence of the file.
WaitDoneChecksDir(r) ==
    /\ reqs[r].pc = "reading"
    /\ reqs[r].proc = "exited"
    /\ LET q == reqs[r]
       IN  IF q.rc # 0
           THEN /\ reqs' = [reqs EXCEPT ![r].pc = "done", ![r].line = <<>>,
                      ![r].frames = Append(@, ErrorFrame("yt-dlp exited with status", <<>>, q.rc))]
           ELSE IF ~PathExists(fs, q.dir)
           THEN /\ reqs' = [reqs EXCEPT ![r].pc = "done", ![r].line = <<>>,
                      ![r].frames = Append(@, ErrorFrame("No audio file produced", <<>>, 0))]
           ELSE /\ reqs' = [reqs EXCEPT ![r].pc = "done", ![r].line = <<>>,
                      ![r].frames = Append(@, CompleteFrame(q.filename))]
    /\ UNCHANGED <<fs, resp>>

\* Mutant of WaitDone: a zero exit status is taken as success without
\* looking for the file.
WaitDoneTrustsExit(r) ==
    /\ reqs[r].pc = "reading"
    /\ reqs[r].proc = "exited"
    /\ LET q == reqs[r]
       IN  IF q.rc # 0
           THEN /\ reqs' = [reqs EXCEPT ![r].pc = "done", ![r].line = <<>>,
                      ![r].frames = Append(@, ErrorFrame("yt-dlp exited with status", <<>>, q.rc))]
           ELSE /\ reqs' = [reqs EXCEPT ![r].pc = "done", ![r].line = <<>>,
                      ![r].frames = Append(@, CompleteFrame(q.filename))]
    /\ UNCHANGED <<fs, resp>>

\* Mutant of WaitDone: the loop goes on (continue for break) when readline()
\* returns b"".
WaitDoneSpins(r) ==
    /\ reqs[r].pc = "reading"
    /\ reqs[r].proc = "exited"
    /\ UNCHANGED vars

\* readline() returns b"" once the process has closed its output, and
\* process.wait() returns its exit status: lines 119-120 and 127-142.
WaitDone(r) ==
    /\ reqs[r].pc = "reading"
    /\ reqs[r].proc = "exited"
    /\ LET q == reqs[r]
       IN  IF q.rc # 0
           THEN /\ reqs' = [reqs EXCEPT ![r].pc = "done", ![r].line = <<>>,
                      ![r].frames = Append(@, ErrorFrame("yt-dlp exited with status", <<>>, q.rc))]
                /\ UNCHANGED fs
           ELSE IF ~PathExists(fs, q.out)
           THEN /\ reqs' = [reqs EXCEPT ![r].pc = "done", ![r].line = <<>>,
                      ![r].frames = Append(@, ErrorFrame("No audio file produced", <<>>, 0))]
                /\ UNCHANGED fs
           ELSE /\ fs' = Utime(fs, RealPath(fs, q.out))
                /\ reqs' = [reqs EXCEPT ![r].pc = "done", ![r].line = <<>>,
                      ![r].frames = Append(@, CompleteFrame(q.filename))]
    /\ UNCHANGED resp

\* ----------------------------------------------- the extraction process
\* yt-dlp is a black box to the program.  What the program relies on is that
\* the process writes the file named by --output.  The file is written in
\* place: it exists at that path before the process has finished producing
\* it (the download is stored there before it is converted to mp3), and a
\* process that fails may leave it unfinished.  A process exits 0 only when
\* it is not in the middle of writing the file.
Writing(F, q, r) ==
    LET t == RealPath(F, q.out)
    IN  t \in DOMAIN F /\ F[t].kind = "file" /\ F[t].content = "partial" /\ F[t].writer = r

ProcWrite(r) ==
    /\ reqs[r].proc = "running"
    /\ LET t == RealPath(fs, reqs[r].out)
       IN  /\ IF t \in DOMAIN fs THEN fs[t].kind = "file" ELSE TRUE
           /\ ~Writing(fs, reqs[r], r)
           /\ fs' = (t :> File("partial", r, 0)) @@ fs
    /\ UNCHANGED <<reqs, resp>>

ProcFinish(r) ==
    /\ reqs[r].proc = "running"
    /\ Writing(fs, reqs[r], r)
    /\ fs' = [fs EXCEPT ![RealPath(fs, reqs[r].out)].content = "full"]
    /\ UNCHANGED <<reqs, resp>>

ProcExit(r) ==
    /\ reqs[r].proc = "running"
    /\ \E rc \in ExitCodes :
         /\ rc = 0 => ~Writing(fs, reqs[r], r)
         /\ reqs' = [reqs EXCEPT ![r].proc = "exited", ![r].rc = rc]
    /\ UNCHANGED <<fs, resp>>

\* ------------------------------------------------------------- retrieval
\* Mutant of Fetch: the destination is checked by the block of the stream
\* endpoint, which creates a missing directory.
FetchMkdir ==
    /\ \E filename \in FetchNames, dest \in FetchDests :
         /\ resp' = FetchDownload(fs, filename, dest)
         /\ fs' = StreamDest(fs, dest).fs
    /\ UNCHANGED reqs

\* GET /download/{filename}?dest=...
Fetch ==
    /\ \E filename \in FetchNames, dest \in FetchDests :
         resp' = FetchDownload(fs, filename, dest)
    /\ UNCHANGED <<fs, reqs>>

\* ------------------------------------------------------ Content-Disposition
\* Longest file name handed to _build_content_disposition.
MaxName == 3

\* Characters of a file name: a letter, a dot, a space, a letter outside
\* ASCII, a double quote, a carriage return, a line feed.
QUOTE == "\""
CR == "\r"
Chars == {"a", ".", SP, "é", QUOTE, CR, NL}
FileNames == UNION { [1..n -> Chars] : n \in 0..MaxName }

\* filename.replace('"', "").replace("\r", " ").replace("\n", " ")
RECURSIVE Sanitize(_)
Sanitize(name) ==
    IF name = <<>> THEN <<>>
    ELSE LET c == Head(name)
         IN  (IF c = QUOTE THEN <<>> ELSE IF c \in {CR, NL} THEN <<SP>> ELSE <<c>>)
             \o Sanitize(Tail(name))

\* .encode("ascii", "ignore").decode("ascii")
IsAscii(c) == c # "é"
AsciiOnly(s) == SelectSeq(s, IsAscii)

\* Mutant of AsciiFallback: no default name.
AsciiFallbackBare(s) == AsciiOnly(s)

\* sanitized.encode("ascii", "ignore").decode("ascii") or "audio.mp3"
AsciiFallback(s) == IF AsciiOnly(s) = <<>> THEN <<"audio", ".mp3">> ELSE AsciiOnly(s)

\* urllib.parse.quote(text): letters, digits and "_.-~/" are kept, every
\* other character is written as the %XX of each byte of its UTF-8 form.
QuoteChar(c) ==
    CASE c = SP -> <<"%20">>
      [] c = "é" -> <<"%C3", "%A9">>
      [] c = QUOTE -> <<"%22">>
      [] c = CR -> <<"%0D">>
      [] c = NL -> <<"%0A">>
      [] OTHER -> <<c>>

RECURSIVE Quote(_)
Quote(s) == IF s = <<>> THEN <<>> ELSE QuoteChar(Head(s)) \o Quote(Tail(s))

\* The fixed parts of the header value.
Attachment == "attachment; filename=\""
FilenameStar == "\"; filename*=UTF-8''"

\* _build_content_disposition(filename)
BuildContentDisposition(filename) ==
    LET sanitized == Sanitize(filename)
    IN  <<Attachment>> \o AsciiFallback(sanitized) \o <<FilenameStar>> \o Quote(sanitized)

\* The header of a response is built for a file name.
Header(filename, value) == [filename |-> filename, header |-> value]

BuildHeader ==
    /\ resp.header = <<>>
    /\ resp' = Header(resp.filename, BuildContentDisposition(resp.filename))
    /\ UNCHANGED <<fs, reqs>>

\* ------------------------------------------------------------ directory listing
\* The order of sorted(..., key=lambda p: p.name.lower()) on the first
\* token of a name (the names of the model are in lower case).
Alphabet == <<"a", "f", "h", "l", "m", "o", "s", "x">>
SortKey(p) == CHOOSE i \in 1..Len(Alphabet) : Alphabet[i] = p[Len(p)][1]

RECURSIVE Sorted(_)
Sorted(S) ==
    IF S = {} THEN <<>>
    ELSE LET first == CHOOSE p \in S : \A q \in S : SortKey(p) <= SortKey(q)
         IN  <<first>> \o Sorted(S \ {first})

\* Path.as_posix() of an absolute path
RECURSIVE PosixParts(_)
PosixParts(p) == IF p = <<>> THEN <<>> ELSE <<SEP>> \o Head(p) \o PosixParts(Tail(p))
AsPosix(p) == IF p = <<>> THEN <<SEP>> ELSE PosixParts(p)

\* _tildify(path): "~" and what follows home in the resolved path when the
\* resolved path is under home, the resolved path otherwise.
Tildify(F, p) ==
    LET home == RealPath(F, HomeDir)
        resolved == RealPath(F, p)
    IN  IF IsRelativeTo(resolved, home)
        THEN TILDE \o SubSeq(AsPosix(resolved), Len(AsPosix(home)) + 1, Len(AsPosix(resolved)))
        ELSE AsPosix(resolved)

\* path query values of /browse: those of the retrieval endpoint.
BrowsePaths == FetchDests

\* target.iterdir() lists the directory, or raises PermissionError.
ListOutcomes == {"ok", "denied"}

\* target.iterdir(): the paths target / name of the names in the directory
IterDir(F, target) == { p \in DOMAIN F : p # Root /\ Parent(p) = target }

\* The dictionary browse returns.
Listing(path, parent, entries) == [path |-> path, parent |-> parent, entries |-> entries]

\* browse(path): lines 197-216.  The children that are directories (a
\* symlink to a directory is one) are kept, in the order of their names.
BrowseResult(F, path, listing) ==
    LET base == RealPath(F, HomeDir)
        asked == Resolve(F, IF path.given /\ path.text # <<>> THEN path.text ELSE TILDE)
        target == IF Exists(F, asked) /\ IsDir(F, asked) /\ IsRelativeTo(asked, base)
                  THEN asked ELSE base
        dirs == Sorted({ c \in IterDir(F, target) : IsDir(F, RealPath(F, c)) })
        entries == IF listing = "denied" THEN <<>>
                   ELSE [i \in 1..Len(dirs) |->
                            [name |-> dirs[i][Len(dirs[i])], path |-> Tildify(F, dirs[i])]]
    IN  Listing(Tildify(F, target),
                IF target # base THEN D(Tildify(F, Parent(target))) ELSE NoDest,
                entries)

\* GET /browse?path=...
Browse ==
    /\ \E path \in BrowsePaths, listing \in ListOutcomes :
         resp' = BrowseResult(fs, path, listing)
    /\ UNCHANGED <<fs, reqs>>

\* ------------------------------------------------------- specifications
\* The stream endpoint with MaxReq requests in flight.
Next ==
    \/ \E r \in Requests : Start(r)
    \/ \E r \in Requests : ResolverDone(r)
    \/ \E r \in Requests : HitComplete(r)
    \/ \E r \in Requests : ReadLine(r)
    \/ \E r \in Requests : WaitDone(r)
    \/ \E r \in Requests : ProcWrite(r)
    \/ \E r \in Requests : ProcFinish(r)
    \/ \E r \in Requests : ProcExit(r)

Spec == Init /\ [][Next]_vars

\* The stream endpoint under the scheduling the program runs with.  Every
\* process closes its output and exits (the proviso of the claim): the dry
\* run, whose exit is what communicate() waits for, and the extraction.  The
\* event loop runs a coroutine that is ready: the generator goes on after
\* the log frame of a cache hit, and after the end of the output of an
\* exited process.  Nothing is asked of the arrival of requests, of the
\* lines a process prints or of what it writes.  At most one of the four
\* steps of a request is possible at a time, and it stays possible until it
\* is taken.
Progress(r) == ResolverDone(r) \/ HitComplete(r) \/ ProcExit(r) \/ WaitDone(r)

\* The requests of the liveness specification: the one whose end is
\* claimed and one other in flight beside it.
InFlight == {1, 2}

NextLive ==
    \/ \E r \in InFlight : Start(r)
    \/ \E r \in InFlight : ResolverDone(r)
    \/ \E r \in InFlight : HitComplete(r)
    \/ \E r \in InFlight : ReadLine(r)
    \/ \E r \in InFlight : WaitDone(r)
    \/ \E r \in InFlight : ProcWrite(r)
    \/ \E r \in InFlight : ProcFinish(r)
    \/ \E r \in InFlight : ProcExit(r)

Fairness == \A r \in InFlight : WF_vars(Progress(r))

SpecLive == Init /\ [][NextLive]_vars /\ Fairness

\* One stream request, and retrievals at any moment before, during and
\* after it.
NextFetch ==
    \/ Start(1)
    \/ ResolverDone(1)
    \/ HitComplete(1)
    \/ ReadLine(1)
    \/ WaitDone(1)
    \/ ProcWrite(1)
    \/ ProcFinish(1)
    \/ ProcExit(1)
    \/ Fetch

SpecFetch == Init /\ [][NextFetch]_vars

\* One stream request (it creates directories), and listings at any moment.
NextBrowse ==
    \/ Start(1)
    \/ ResolverDone(1)
    \/ HitComplete(1)
    \/ ReadLine(1)
    \/ WaitDone(1)
    \/ ProcWrite(1)
    \/ ProcFinish(1)
    \/ ProcExit(1)
    \/ Browse

SpecBrowse == Init /\ [][NextBrowse]_vars

\* _build_content_disposition applied to every file name of FileNames.
InitDisposition ==
    /\ fs = InitFs
    /\ reqs = [r \in Requests |-> Idle]
    /\ resp \in { Header(name, <<>>) : name \in FileNames }

SpecDisposition == InitDisposition /\ [][BuildHeader]_vars

\* One stream request whose extraction prints the lines of LogLines.
NextLog ==
    \/ Start(1)
    \/ ResolverDone(1)
    \/ HitComplete(1)
    \/ ReadLog(1)
    \/ WaitDone(1)
    \/ ProcWrite(1)
    \/ ProcFinish(1)
    \/ ProcExit(1)

SpecLog == Init /\ [][NextLog]_vars

\* ================================================================ claims
Last(seq) == seq[Len(seq)]
Count(seq, ev) == Len(SelectSeq(seq, LAMBDA f : f.event = ev))
ReuseLog(name) == LogFrame("Using cached audio for", name)
ExitError(n) == Frame("error", "error", "yt-dlp exited with status", <<>>, n)
NoFileError == Frame("error", "error", "No audio file produced", <<>>, 0)
FileA == <<"a", ".mp3">>
MusicDir == Append(HomeDir, <<"m">>)

\* Request r appends a frame of kind ev in this step.
Emits(r, ev) ==
    /\ Len(reqs'[r].frames) > Len(reqs[r].frames)
    /\ Last(reqs'[r].frames).event = ev

\* C1: in every state of every stream, a terminal frame (error or complete)
\* is the last frame emitted, so there is at most one and nothing follows
\* it; and a stream has ended exactly when its last frame is terminal, so no
\* stream ends without one.
C1_OneTerminalFrameLast ==
    \A r \in Requests :
        LET fr == reqs[r].frames
        IN  /\ \A i \in 1..Len(fr) : IsTerminal(fr[i]) => i = Len(fr)
            /\ (reqs[r].pc = "done") = (fr # <<>> /\ IsTerminal(Last(fr)))

\* one stream ended by complete after a progress line, another ended by an
\* error raised before any frame
C1_Witness ==
    /\ reqs[1].pc = "done" /\ Len(reqs[1].frames) = 2
    /\ reqs[1].frames[1] = LogFrame("", <<"dl">>)
    /\ Last(reqs[1].frames).event = "complete"
    /\ reqs[2].pc = "done" /\ Len(reqs[2].frames) = 1
    /\ Last(reqs[2].frames).event = "error"
    /\ reqs[2].spawns # <<>>

\* C2: a step that emits complete with filename f leaves the file d/f in the
\* filesystem (d the validated directory); a request whose cache check finds
\* d/f takes the cache-hit path and ends with complete; a request whose
\* extraction exited 0 with d/f present ends with complete.
C2_CompleteIffArtifact ==
    [][\A r \in Requests :
        LET q == reqs[r]
            q2 == reqs'[r]
        IN  /\ Emits(r, "complete") =>
                  /\ q2.dir # <<>>
                  /\ RealPath(fs', Join(q2.dir, Last(q2.frames).arg)) \in DOMAIN fs'
            /\ (q.pc = "resolving" /\ q2.out # <<>> /\ RealPath(fs, q2.out) \in DOMAIN fs)
                  => q2.pc = "hit"
            /\ (q.pc = "hit" /\ q2 # q)
                  => q2.pc = "done" /\ Last(q2.frames) = CompleteFrame(q.filename)
            /\ (q.pc = "reading" /\ q.proc = "exited" /\ q.rc = 0 /\ q2 # q
                    /\ RealPath(fs, q.out) \in DOMAIN fs)
                  => q2.pc = "done" /\ Last(q2.frames) = CompleteFrame(q.filename)
      ]_vars

\* an extraction that exited 0 with its file written, followed by complete
C2_Witness ==
    /\ reqs[1].pc = "done" /\ reqs[1].proc = "exited" /\ reqs[1].rc = 0
    /\ Last(reqs[1].frames) = CompleteFrame(FileA)
    /\ Append(MusicDir, FileA) \in DOMAIN fs
    /\ fs[Append(MusicDir, FileA)].content = "full"

\* Filesystem F2 is F with the time of node t moved forward and nothing else
\* changed: no node created or removed, no content rewritten.
OnlyTouched(F, F2, t) ==
    /\ DOMAIN F2 = DOMAIN F
    /\ \A p \in DOMAIN F :
         IF p = t
         THEN F2[p].mtime > F[p].mtime /\ F2[p] = [F[p] EXCEPT !.mtime = F2[p].mtime]
         ELSE F2[p] = F[p]

\* C3: when the predicted file of a request already exists at its cache
\* check, that step creates no process, changes the filesystem only by
\* touching the file, and emits the reuse log as the stream's first frame;
\* the request's next step emits complete, leaving the reuse log the only
\* log frame, the dry-run the only process and the filesystem as it was.
C3_CacheHit ==
    [][\A r \in Requests :
        LET q == reqs[r]
            q2 == reqs'[r]
        IN  /\ (q.pc = "resolving" /\ q2.out # <<>> /\ RealPath(fs, q2.out) \in DOMAIN fs)
                  => /\ q2.pc = "hit"
                     /\ q2.spawns = <<Spawn("resolve", q.url, <<>>)>>
                     /\ q2.frames = <<ReuseLog(q2.filename)>>
                     /\ OnlyTouched(fs, fs', RealPath(fs, q2.out))
            /\ (q.pc = "hit" /\ q2 # q)
                  => /\ q2.pc = "done"
                     /\ q2.frames = <<ReuseLog(q.filename), CompleteFrame(q.filename)>>
                     /\ q2.spawns = <<Spawn("resolve", q.url, <<>>)>>
                     /\ fs' = fs
      ]_vars

\* the second request finds the file the first request's extraction produced
C3_Witness ==
    /\ reqs[1].pc = "done" /\ Last(reqs[1].frames) = CompleteFrame(FileA)
    /\ Len(reqs[1].spawns) = 2
    /\ reqs[2].pc = "done" /\ reqs[2].dest = reqs[1].dest /\ reqs[2].url = reqs[1].url
    /\ reqs[2].frames = <<ReuseLog(FileA), CompleteFrame(FileA)>>
    /\ fs[Append(MusicDir, FileA)].content = "full"
    /\ fs[Append(MusicDir, FileA)].mtime = 2

\* C4: a request whose extraction process exited with status N # 0 ends
\* with the frame 'yt-dlp exited with status N', which is its only error
\* frame; it has no complete frame and has created no process besides its
\* dry-run and that one extraction.
C4_NonzeroExit ==
    \A r \in Requests :
        LET q == reqs[r]
        IN  (q.pc = "done" /\ q.proc = "exited" /\ q.rc # 0) =>
                /\ Last(q.frames) = ExitError(q.rc)
                /\ Count(q.frames, "error") = 1
                /\ Count(q.frames, "complete") = 0
                /\ q.spawns = <<Spawn("resolve", q.url, <<>>), Spawn("extract", q.url, q.out)>>

\* an extraction that exited with status 2 after a progress line
C4_Witness ==
    \E r \in Requests :
        /\ reqs[r].pc = "done" /\ reqs[r].rc = 2
        /\ reqs[r].frames = <<LogFrame("", <<"dl">>), ExitError(2)>>

\* C5: when process.wait() returns 0 and no file exists at the expected
\* path, the request ends in that step with the frame 'No audio file
\* produced' and its stream holds no complete frame.
C5_NoFileProduced ==
    [][\A r \in Requests :
        LET q == reqs[r]
            q2 == reqs'[r]
        IN  (q.pc = "reading" /\ q.proc = "exited" /\ q.rc = 0 /\ q2 # q
                /\ RealPath(fs, q.out) \notin DOMAIN fs)
              => /\ q2.pc = "done"
                 /\ Last(q2.frames) = NoFileError
                 /\ Count(q2.frames, "complete") = 0
      ]_vars

\* an extraction that exited 0 without writing its file
C5_Witness ==
    \E r \in Requests :
        /\ reqs[r].pc = "done" /\ reqs[r].proc = "exited" /\ reqs[r].rc = 0
        /\ Last(reqs[r].frames) = NoFileError
        /\ RealPath(fs, reqs[r].out) \notin DOMAIN fs

\* dest is given, not blank, and its canonical path is outside home.
Outside(F, dest) ==
    /\ dest.given
    /\ Strip(dest.text) # <<>>
    /\ ~IsRelativeTo(Resolve(F, dest.text), HomeDir)

\* C6: a request whose dest has a canonical path that is neither home nor
\* nested under home is rejected (its stream is the one error frame of the
\* destination check) and has created no process, neither the dry-run nor
\* the extraction.
C6_PathSandbox ==
    \A r \in Requests :
        LET q == reqs[r]
        IN  (q.pc # "idle" /\ Outside(fs, q.dest)) =>
                /\ q.pc = "done"
                /\ q.spawns = <<>>
                /\ q.frames = <<ErrorFrame(
                       "Destination must be a directory under the home folder", <<>>, 0)>>

\* one request rejected for a symlink that leaves home, another for ".."
C6_Witness ==
    /\ reqs[1].dest = D(<<"~", SEP, "l">>) /\ reqs[1].pc = "done"
    /\ reqs[2].dest = D(<<"~", SEP, "..">>) /\ reqs[2].pc = "done"

\* dest is missing, blank or invalid (not a directory under home).
BadDest(F, dest) ==
    \/ ~dest.given
    \/ Strip(dest.text) = <<>>
    \/ ~IsDir(F, Resolve(F, dest.text))
    \/ ~IsRelativeTo(Resolve(F, dest.text), HomeDir)

\* C7 as stated: a request with a missing, blank or invalid dest creates no
\* process and gets an HTTP error response and no frame.
C7_RejectedAsHttpError ==
    \A r \in Requests :
        LET q == reqs[r]
        IN  (q.pc # "idle" /\ BadDest(fs, q.dest)) =>
                /\ q.spawns = <<>>
                /\ q.http >= 400
                /\ q.frames = <<>>

\* C7 as amended: a request with a missing, blank or invalid dest creates no
\* process; its response is the 200 event stream, whose only frame is the
\* error frame carrying the message of the destination check.
C7_RejectedAsErrorFrame ==
    \A r \in Requests :
        LET q == reqs[r]
        IN  (q.pc # "idle" /\ BadDest(fs, q.dest)) =>
                /\ q.spawns = <<>>
                /\ q.http = 200
                /\ q.pc = "done"
                /\ Len(q.frames) = 1
                /\ q.frames[1].event = "error"
                /\ q.frames[1].text \in
                     { "Destination directory is required",
                       "Destination must be a directory under the home folder",
                       "NotADirectoryError" }

\* a request without dest and a request whose dest is a regular file
C7_Witness ==
    /\ reqs[1].dest = NoDest /\ reqs[1].pc = "done"
    /\ reqs[2].dest = D(<<"~", SEP, "f">>) /\ reqs[2].pc = "done"

\* C8: a retrieval made once a stream for dest has ended with complete and
\* filename f, with that filename and that dest, while the file exists,
\* answers 200 with the path of the file; and no retrieval changes the
\* filesystem, so it can be repeated.
C8_RetrievalAfterComplete ==
    [][resp' # resp =>
        /\ fs' = fs
        /\ \A r \in Requests :
             LET q == reqs[r]
             IN  (/\ q.pc = "done"
                  /\ Last(q.frames).event = "complete"
                  /\ resp'.filename = Last(q.frames).arg
                  /\ resp'.dest = q.dest
                  /\ RealPath(fs, Join(q.dir, Last(q.frames).arg)) \in DOMAIN fs)
                 => /\ resp'.status = 200
                    /\ resp'.path = Join(q.dir, Last(q.frames).arg)
      ]_vars

\* the file of a completed extraction has been retrieved
C8_Witness ==
    /\ reqs[1].pc = "done" /\ reqs[1].proc = "exited"
    /\ Last(reqs[1].frames) = CompleteFrame(FileA)
    /\ resp.status = 200 /\ resp.filename = FileA /\ resp.dest = reqs[1].dest
    /\ resp.path = Append(MusicDir, FileA)

\* C9 as stated: a 200 response serves a path whose last component is a bare
\* file name (the key, which is neither empty nor ".." and holds no "/") and
\* whose parent is a directory equal to or nested under home.
C9_ServesDirectChild ==
    resp.status = 200 =>
        /\ resp.path # <<>>
        /\ Last(resp.path) = resp.filename
        /\ resp.filename \notin {<<>>, DOT, DOTDOT}
        /\ \A i \in 1..Len(resp.filename) : resp.filename[i] # SEP
        /\ IsDir(fs, Parent(resp.path))
        /\ IsRelativeTo(Parent(resp.path), HomeDir)

\* C10 as stated: a step that emits complete refers to a fully produced
\* artifact: the file it names is not one an extraction process is still
\* writing or has left partial.
C10_CompleteIsFullyProduced ==
    [][\A r \in Requests :
        Emits(r, "complete") =>
            LET t == RealPath(fs', reqs'[r].out)
            IN  (t \in DOMAIN fs' /\ fs'[t].kind = "file") => fs'[t].content = "full"
      ]_vars

\* The key holds a "/" or is ".": it is not the final component of itself.
NotBare(name) == name = DOT \/ \E i \in 1..Len(name) : name[i] = SEP

\* C11: every retrieval leaves the filesystem and the streams as they were;
\* a key that is not a bare final path component answers 400, a missing or
\* blank dest answers 400, a dest that is not an existing directory under
\* home answers 400, an unknown key in a valid directory answers 404, and
\* an answer other than 200 carries no path.
C11_FetchFailures ==
    [][resp' # resp =>
        LET f == resp'.filename
            d == resp'.dest
            blank == ~d.given \/ Strip(d.text) = <<>>
            dir == Resolve(fs, d.text)
            valid == ~blank /\ dir \in DOMAIN fs /\ fs[dir].kind = "dir"
                        /\ IsRelativeTo(dir, HomeDir)
        IN  /\ fs' = fs
            /\ reqs' = reqs
            /\ resp'.status \in {200, 400, 404}
            /\ NotBare(f) => resp'.status = 400 /\ resp'.detail = "Invalid filename"
            /\ blank => resp'.status = 400
            /\ ~valid => resp'.status = 400
            /\ (~NotBare(f) /\ valid /\ RealPath(fs, Append(dir, f)) \notin DOMAIN fs)
                  => resp'.status = 404
            /\ resp'.status # 200 => resp'.path = <<>>
      ]_vars

\* an unknown key asked of the directory a stream has created
C11_Witness ==
    /\ resp.status = 404
    /\ resp.dest = D(<<"~", SEP, "m">>)
    /\ resp.filename = FileA
    /\ MusicDir \in DOMAIN fs
    /\ Append(MusicDir, FileA) \notin DOMAIN fs

\* The lines of an output that are not blank.
Printed(lines) == { i \in 1..Len(lines) : Strip(lines[i]) # <<>> }

\* The last line that is not blank, trimmed.
LastLine(lines) ==
    Strip(lines[CHOOSE i \in Printed(lines) : \A j \in Printed(lines) : j <= i])

\* A trailing ".webm" rewritten to ".mp3".
AsMp3(t) == IF t[Len(t)] = ".webm" THEN [t EXCEPT ![Len(t)] = ".mp3"] ELSE t

\* What follows the last "/" of a text that does not end in one.
AfterLastSep(t) ==
    LET seps == { i \in 1..Len(t) : t[i] = SEP }
    IN  IF seps = {} THEN t
        ELSE SubSeq(t, (CHOOSE i \in seps : \A j \in seps : j <= i) + 1, Len(t))

\* Request r leaves the resolver with a dry run that exited 0 and printed
\* a line.
Resolved(r) ==
    /\ reqs[r].pc = "resolving"
    /\ reqs'[r].pc # "resolving"
    /\ reqs'[r].run.rc = 0
    /\ Printed(reqs'[r].run.stdout) # {}

\* C12: after a dry run that exits 0, the name of the request is the last
\* non-blank stdout line, trimmed, with a trailing ".webm" rewritten to
\* ".mp3" and cut to its final component, whatever the earlier lines and
\* stderr are; the cache is looked up under that name in the destination
\* directory, the reuse log names it, and the extraction is given that
\* path as --output.
C12_ResolverResult ==
    [][\A r \in Requests : Resolved(r) =>
         LET q == reqs'[r]
             name == AfterLastSep(AsMp3(LastLine(q.run.stdout)))
             path == Append(q.dir, name)
             cached == RealPath(fs, path) \in DOMAIN fs
         IN  /\ q.filename = name
             /\ q.out = path
             /\ cached <=> q.pc = "hit"
             /\ cached => Last(q.frames) = Frame("message", "log", "Using cached audio for", name, 0)
             /\ ~cached /\ q.pc = "reading"
                   => Last(q.spawns) = [mode |-> "extract", url |-> q.url, output |-> path]
      ]_vars

\* the name came from a line that is neither the first nor the last, was
\* padded, ended in ".webm" and held a directory, with text on stderr
C12_Witness ==
    \E r \in Requests :
        /\ reqs[r].run = Run(0, << <<"[info]">>, <<SP, "d", SEP, "a", ".webm", SP>>, <<SP>> >>, <<"E">>)
        /\ reqs[r].filename = FileA
        /\ reqs[r].pc = "reading"
        /\ reqs[r].out = Append(MusicDir, FileA)

\* Request r leaves the resolver with a dry run that exited with another
\* status than 0 or printed nothing but blank lines.
Unresolved(r) ==
    /\ reqs[r].pc = "resolving"
    /\ reqs'[r].pc # "resolving"
    /\ reqs'[r].run.rc # 0 \/ Printed(reqs'[r].run.stdout) = {}

\* The detail of the error frame of a failed dry run.
ResolverDetail(run) ==
    LET err == Strip(run.stderr)
        out == Strip(JoinLines(run.stdout))
    IN  IF run.rc = 0 THEN Frame("error", "error", "Filename not provided by yt-dlp", <<>>, 0)
        ELSE IF err # <<>> THEN Frame("error", "error", "", err, 0)
        ELSE IF out # <<>> THEN Frame("error", "error", "", out, 0)
        ELSE Frame("error", "error", "Failed to resolve filename", <<>>, 0)

IsListing(x) == "entries" \in DOMAIN x

\* C14: a listing names a directory under home, has no parent exactly when
\* it names home itself, and every path in it (path, parent, the path of
\* each entry) is a display path that starts with "~".
C14_BrowseStaysHome ==
    IsListing(resp) =>
        /\ StartsWith(resp.path, "~")
        /\ ~resp.parent.given <=> resp.path = TILDE
        /\ resp.parent.given => StartsWith(resp.parent.text, "~")
        /\ \A i \in 1..Len(resp.entries) : StartsWith(resp.entries[i].path, "~")

\* Reads a percent-encoded text back.
RECURSIVE Unquote(_)
Unquote(s) ==
    IF s = <<>> THEN <<>>
    ELSE IF Len(s) >= 2 /\ SubSeq(s, 1, 2) = <<"%C3", "%A9">> THEN <<"é">> \o Unquote(SubSeq(s, 3, Len(s)))
    ELSE (CASE Head(s) = "%20" -> <<SP>>
            [] Head(s) = "%22" -> <<QUOTE>>
            [] Head(s) = "%0D" -> <<CR>>
            [] Head(s) = "%0A" -> <<NL>>
            [] OTHER -> <<Head(s)>>) \o Unquote(Tail(s))

\* What a percent-encoded text is made of.
Encoded == {"a", ".", "%20", "%C3", "%A9", "%22", "%0D", "%0A"}

\* The file name without its double quotes, line ends read as spaces.
Cleaned(name) ==
    [i \in 1..Len(SelectSeq(name, LAMBDA c : c # QUOTE)) |->
        LET c == SelectSeq(name, LAMBDA x : x # QUOTE)[i]
        IN  IF c \in {CR, NL} THEN SP ELSE c]

\* C15: the header value built for a file name is the attachment part
\* with a fallback name that is not empty, holds ASCII characters only and
\* no double quote or line end, and is "audio.mp3" when no ASCII character
\* of the name is left, followed by the filename* part whose value is
\* percent-encoded and reads back as the cleaned name.
C15_ContentDisposition ==
    ("header" \in DOMAIN resp /\ resp.header # <<>>) =>
        LET h == resp.header
            k == CHOOSE i \in 1..Len(h) : h[i] = FilenameStar
            fallback == SubSeq(h, 2, k - 1)
            star == SubSeq(h, k + 1, Len(h))
            ascii == SelectSeq(Cleaned(resp.filename), LAMBDA c : c # "é")
        IN  /\ h[1] = Attachment
            /\ \E i \in 1..Len(h) : h[i] = FilenameStar
            /\ fallback # <<>>
            /\ \A i \in 1..Len(fallback) : fallback[i] \notin {"é", QUOTE, CR, NL}
            /\ fallback = IF ascii = <<>> THEN <<"audio", ".mp3">> ELSE ascii
            /\ \A i \in 1..Len(star) : star[i] \in Encoded
            /\ Unquote(star) = Cleaned(resp.filename)

\* the header of a name made of a letter outside ASCII and a double quote
C15_Witness ==
    /\ "header" \in DOMAIN resp
    /\ resp.filename = <<"é", QUOTE>>
    /\ resp.header = <<Attachment, "audio", ".mp3", FilenameStar, "%C3", "%A9">>

\* A line that is shown: not blank, and the warning marker does not open it.
Shown(line) ==
    \E i \in 1..Len(line) :
        /\ ~IsSpace(line[i])
        /\ \A j \in 1..(i - 1) : IsSpace(line[j])
        /\ line[i] # "WARNING:"

\* The line without the blanks around it.
Trimmed(line) ==
    LET ink == { i \in 1..Len(line) : ~IsSpace(line[i]) }
    IN  SubSeq(line, CHOOSE i \in ink : \A j \in ink : i <= j,
                     CHOOSE i \in ink : \A j \in ink : j <= i)

\* C16: on a cache miss the stream starts with no frame; every line read
\* from the extraction adds, at the end of the frames, one log frame that
\* carries the trimmed line when the line is shown, and nothing when it is
\* blank or a warning; the only other frame is the terminal one, added
\* last when the end of the output is read.
C16_LogFramesFollowOutput ==
    [][\A r \in Requests :
         LET q == reqs[r]
             n == reqs'[r]
         IN  /\ (q.pc # "reading" /\ n.pc = "reading") => n.frames = <<>> /\ n.line = <<>>
             /\ (q.pc = "reading" /\ n.pc = "reading" /\ (n.frames # q.frames \/ n.line # q.line))
                   => /\ n.line # <<>>
                      /\ n.frames = IF Shown(n.line)
                                    THEN Append(q.frames, Frame("message", "log", "", Trimmed(n.line), 0))
                                    ELSE q.frames
             /\ (q.pc = "reading" /\ n.pc # "reading")
                   => /\ n.pc = "done"
                      /\ n.line = <<>>
                      /\ Len(n.frames) = Len(q.frames) + 1
                      /\ SubSeq(n.frames, 1, Len(q.frames)) = q.frames
                      /\ Last(n.frames).event \in {"error", "complete"}
      ]_vars

\* three lines were shown, the padded one trimmed, in the order read, and
\* the process has exited
C16_Witness ==
    /\ reqs[1].pc = "reading"
    /\ reqs[1].frames = << Frame("message", "log", "", <<"fin">>, 0),
                           Frame("message", "log", "", <<"w", "WARNING:">>, 0),
                           Frame("message", "log", "", <<"dl">>, 0) >>
    /\ reqs[1].line = <<"dl", NL>>
    /\ reqs[1].proc = "exited"

\* C17: the path a request looks up, touches and gives to the extraction
\* as --output is a direct child of its validated directory: the directory
\* followed by one name that is not empty, not "." and not "..", and holds
\* no "/".
C17_OutputIsDirectChild ==
    \A r \in Requests :
        LET q == reqs[r]
        IN  q.out # <<>> =>
                /\ q.out = Append(q.dir, q.filename)
                /\ q.filename \notin {<<>>, DOT, DOTDOT}
                /\ \A i \in 1..Len(q.filename) : q.filename[i] # SEP
                /\ Parent(ResolveFrom(fs, q.dir, <<q.filename>>)) = q.dir

\* C18: a request rejected by the destination check for a destination that
\* is outside home or not a directory leaves the filesystem as it was.
C18_RejectionChangesNothing ==
    [][\A r \in Requests :
         (/\ reqs[r].pc = "idle"
          /\ reqs'[r].pc = "done"
          /\ reqs'[r].frames = << Frame("error", "error",
                 "Destination must be a directory under the home folder", <<>>, 0) >>)
         => fs' = fs
      ]_vars

\* C19: a request that has arrived ends: its stream gets its terminal
\* frame and the generator finishes, whatever the other requests do; and
\* as long as its extraction runs the request stays in the read loop, with
\* no terminal frame.
C19_EveryStreamEnds ==
    /\ \A r \in InFlight :
          (reqs[r].pc # "idle") ~>
              (reqs[r].pc = "done" /\ Last(reqs[r].frames).event \in {"error", "complete"})
    /\ [](\A r \in InFlight :
            reqs[r].proc = "running" =>
                /\ reqs[r].pc = "reading"
                /\ \A i \in 1..Len(reqs[r].frames) : reqs[r].frames[i].event = "message")

\* the second request has completed through its own extraction while the
\* extraction of the first, which arrived before it, still runs
C19_Witness ==
    /\ reqs[1].pc = "reading" /\ reqs[1].proc = "running"
    /\ reqs[2].pc = "done" /\ reqs[2].proc = "exited"
    /\ Last(reqs[2].frames).event = "complete"

====
